---- MODULE Spec2Model ----
(***************************************************************************)
(* Model of the TFTP packet codec of pkg/tftp/protocol.go: the five        *)
(* Marshal methods writing to an io.Writer and the five Unmarshal methods  *)
(* reading from an io.Reader.  Bytes are naturals 0..255, a Go string and  *)
(* a []byte are sequences of bytes, a uint16 is a natural below 65536.     *)
(***************************************************************************)
EXTENDS Integers, Sequences, FiniteSets, TLC

(***************************************************************************)
(* Bounds of the model.                                                    *)
(***************************************************************************)
\* longest string field / short payload handed to Marshal
MaxLen == 2
\* longest byte tail after the 2-byte opcode of a source handed to Unmarshal
MaxBody == 4
\* the sink rejects its FailAt-th write, FailAt in 0..MaxFailAt (0: never)
MaxFailAt == 5
\* longest string handed to isNETASCII on its own
MaxStr == 3

(***************************************************************************)
(* Program constants.                                                      *)
(***************************************************************************)
RRQ == 1
WRQ == 2
DATA == 3
ACK == 4
ERROR == 5
\* unicode.MaxASCII, the upper limit used by isNETASCII
MaxASCII == 127
\* the payload ceiling of DATAPacket.Marshal
MaxData == 512
\* size of the buffer of the bufio.Reader created by bufio.NewReader
BufSize == 4096

\* byte values the inputs are drawn from: NUL, the two ends of 1..127, and
\* the first byte above 7-bit ASCII
Bytes == {0, 1, 127, 128}
\* uint16 values the inputs are drawn from
U16Vals == {0, 1, 7, 42, 256, 65535}

Min(a, b) == IF a < b THEN a ELSE b

RECURSIVE SeqsUpTo(_, _)
SeqsUpTo(S, n) ==
    IF n = 0 THEN {<<>>}
    ELSE LET shorter == SeqsUpTo(S, n - 1)
         IN  shorter \cup {Append(s, b) : s \in {t \in shorter : Len(t) = n - 1}, b \in S}

\* a payload of n bytes whose i-th byte depends on i
LongData(n) == [i \in 1..n |-> i % 256]

(***************************************************************************)
(* Errors.  A sentinel error is a record with only a type; an IOError      *)
(* carries Msg and the name of the wrapped error; an error of the source   *)
(* or sink returned unwrapped has the type of that error.                  *)
(***************************************************************************)
Nil == [type |-> "nil"]
ErrInputNotNETASCII == [type |-> "ErrInputNotNETASCII"]
ErrInvalidBlockNumber == [type |-> "ErrInvalidBlockNumber"]
ErrTooMuchData == [type |-> "ErrTooMuchData"]
ErrMismatchingOpcode == [type |-> "ErrMismatchingOpcode"]
NewIOError(msg, e) == [type |-> "IOError", Msg |-> msg, Err |-> e]

\* the error a rejecting sink returns from Write
ErrSink == [type |-> "ErrSink"]
EOF == [type |-> "EOF"]
ErrUnexpectedEOF == [type |-> "ErrUnexpectedEOF"]
\* an error of the source other than end of input
ErrClosed == [type |-> "ErrClosed"]

(***************************************************************************)
(* isNETASCII: no byte is 0 and no byte is above unicode.MaxASCII.         *)
(***************************************************************************)
\* isNETASCII rejecting the byte unicode.MaxASCII itself
isNETASCII_AtLeast(s) == \A i \in 1..Len(s) : ~(s[i] = 0 \/ s[i] >= MaxASCII)

isNETASCII(s) == \A i \in 1..Len(s) : ~(s[i] = 0 \/ s[i] > MaxASCII)

(***************************************************************************)
(* The sink (io.Writer).  log is the sequence of writes offered so far,    *)
(* buf the bytes accepted; the failAt-th write is rejected whole.          *)
(***************************************************************************)
NewSink(failAt) == [buf |-> <<>>, log |-> <<>>, failAt |-> failAt]
WriteFails(w) == w.failAt = Len(w.log) + 1
Write(w, bs) ==
    IF WriteFails(w) THEN [w EXCEPT !.log = Append(@, bs)]
    ELSE [w EXCEPT !.log = Append(@, bs), !.buf = @ \o bs]

\* binary.BigEndian encoding of a uint16, written by binary.Write in one Write
U16BE(v) == <<(v \div 256) % 256, v % 256>>

MResult(w, e) == [w |-> w, err |-> e]

(***************************************************************************)
(* Marshal methods.  Each returns the sink after the call and the error.   *)
(***************************************************************************)
\* RRQPacket.Marshal checking each field right before it writes it
RRQPacket_Marshal_CheckPerField(p, w) ==
    LET w1 == Write(w, U16BE(RRQ))
        w2 == Write(w1, p.Filename)
        w3 == Write(w2, <<0>>)
        w4 == Write(w3, p.Mode)
        w5 == Write(w4, <<0>>)
    IN  IF WriteFails(w) THEN MResult(w1, NewIOError("can't write opcode", ErrSink))
        ELSE IF ~isNETASCII(p.Filename) THEN MResult(w1, ErrInputNotNETASCII)
        ELSE IF WriteFails(w1) THEN MResult(w2, NewIOError("can't write filename", ErrSink))
        ELSE IF WriteFails(w2)
            THEN MResult(w3, NewIOError("can't write filename NUL byte", ErrSink))
        ELSE IF ~isNETASCII(p.Mode) THEN MResult(w3, ErrInputNotNETASCII)
        ELSE IF WriteFails(w3) THEN MResult(w4, NewIOError("can't write mode", ErrSink))
        ELSE IF WriteFails(w4)
            THEN MResult(w5, NewIOError("can't write mode NUL terminator", ErrSink))
        ELSE MResult(w5, Nil)

RRQPacket_Marshal(p, w) ==
    LET w1 == Write(w, U16BE(RRQ))
        w2 == Write(w1, p.Filename)
        w3 == Write(w2, <<0>>)
        w4 == Write(w3, p.Mode)
        w5 == Write(w4, <<0>>)
    IN  IF WriteFails(w) THEN MResult(w1, NewIOError("can't write opcode", ErrSink))
        ELSE IF ~isNETASCII(p.Filename) \/ ~isNETASCII(p.Mode)
            THEN MResult(w1, ErrInputNotNETASCII)
        ELSE IF WriteFails(w1) THEN MResult(w2, NewIOError("can't write filename", ErrSink))
        ELSE IF WriteFails(w2)
            THEN MResult(w3, NewIOError("can't write filename NUL byte", ErrSink))
        ELSE IF WriteFails(w3) THEN MResult(w4, NewIOError("can't write mode", ErrSink))
        ELSE IF WriteFails(w4)
            THEN MResult(w5, NewIOError("can't write mode NUL terminator", ErrSink))
        ELSE MResult(w5, Nil)

\* WRQPacket.Marshal with the opcode of RRQPacket.Marshal left in place
WRQPacket_Marshal_RRQOpcode(p, w) ==
    LET w1 == Write(w, U16BE(RRQ))
        w2 == Write(w1, p.Filename)
        w3 == Write(w2, <<0>>)
        w4 == Write(w3, p.Mode)
        w5 == Write(w4, <<0>>)
    IN  IF WriteFails(w) THEN MResult(w1, NewIOError("can't write opcode", ErrSink))
        ELSE IF ~isNETASCII(p.Filename) \/ ~isNETASCII(p.Mode)
            THEN MResult(w1, ErrInputNotNETASCII)
        ELSE IF WriteFails(w1) THEN MResult(w2, NewIOError("can't write filename", ErrSink))
        ELSE IF WriteFails(w2)
            THEN MResult(w3, NewIOError("can't write filename NUL terminator", ErrSink))
        ELSE IF WriteFails(w3) THEN MResult(w4, NewIOError("can't write mode", ErrSink))
        ELSE IF WriteFails(w4)
            THEN MResult(w5, NewIOError("can't write mode NUL terminator", ErrSink))
        ELSE MResult(w5, Nil)

WRQPacket_Marshal(p, w) ==
    LET w1 == Write(w, U16BE(WRQ))
        w2 == Write(w1, p.Filename)
        w3 == Write(w2, <<0>>)
        w4 == Write(w3, p.Mode)
        w5 == Write(w4, <<0>>)
    IN  IF WriteFails(w) THEN MResult(w1, NewIOError("can't write opcode", ErrSink))
        ELSE IF ~isNETASCII(p.Filename) \/ ~isNETASCII(p.Mode)
            THEN MResult(w1, ErrInputNotNETASCII)
        ELSE IF WriteFails(w1) THEN MResult(w2, NewIOError("can't write filename", ErrSink))
        ELSE IF WriteFails(w2)
            THEN MResult(w3, NewIOError("can't write filename NUL terminator", ErrSink))
        ELSE IF WriteFails(w3) THEN MResult(w4, NewIOError("can't write mode", ErrSink))
        ELSE IF WriteFails(w4)
            THEN MResult(w5, NewIOError("can't write mode NUL terminator", ErrSink))
        ELSE MResult(w5, Nil)

\* DATAPacket.Marshal checking the block number after writing it
DATAPacket_Marshal_WriteThenCheck(p, w) ==
    LET w1 == Write(w, U16BE(DATA))
        w2 == Write(w1, U16BE(p.BlockNumber))
        w3 == Write(w2, p.Data)
    IN  IF WriteFails(w) THEN MResult(w1, NewIOError("can't write opcode", ErrSink))
        ELSE IF WriteFails(w1)
            THEN MResult(w2, NewIOError("can't write block number", ErrSink))
        ELSE IF p.BlockNumber = 0 THEN MResult(w2, ErrInvalidBlockNumber)
        ELSE IF Len(p.Data) > MaxData THEN MResult(w2, ErrTooMuchData)
        ELSE IF WriteFails(w2) THEN MResult(w3, NewIOError("can't write data", ErrSink))
        ELSE MResult(w3, Nil)

\* DATAPacket.Marshal checking the payload length before the block number
DATAPacket_Marshal_LenFirst(p, w) ==
    LET w1 == Write(w, U16BE(DATA))
        w2 == Write(w1, U16BE(p.BlockNumber))
        w3 == Write(w2, p.Data)
    IN  IF WriteFails(w) THEN MResult(w1, NewIOError("can't write opcode", ErrSink))
        ELSE IF Len(p.Data) > MaxData THEN MResult(w1, ErrTooMuchData)
        ELSE IF p.BlockNumber = 0 THEN MResult(w1, ErrInvalidBlockNumber)
        ELSE IF WriteFails(w1)
            THEN MResult(w2, NewIOError("can't write block number", ErrSink))
        ELSE IF WriteFails(w2) THEN MResult(w3, NewIOError("can't write data", ErrSink))
        ELSE MResult(w3, Nil)

DATAPacket_Marshal(p, w) ==
    LET w1 == Write(w, U16BE(DATA))
        w2 == Write(w1, U16BE(p.BlockNumber))
        w3 == Write(w2, p.Data)
    IN  IF WriteFails(w) THEN MResult(w1, NewIOError("can't write opcode", ErrSink))
        ELSE IF p.BlockNumber = 0 THEN MResult(w1, ErrInvalidBlockNumber)
        ELSE IF WriteFails(w1)
            THEN MResult(w2, NewIOError("can't write block number", ErrSink))
        ELSE IF Len(p.Data) > MaxData THEN MResult(w2, ErrTooMuchData)
        ELSE IF WriteFails(w2) THEN MResult(w3, NewIOError("can't write data", ErrSink))
        ELSE MResult(w3, Nil)

\* ACKPacket.Marshal returning the error of the block-number write as it is
ACKPacket_Marshal_Bare(p, w) ==
    LET w1 == Write(w, U16BE(ACK))
        w2 == Write(w1, U16BE(p.BlockNumber))
    IN  IF WriteFails(w) THEN MResult(w1, NewIOError("can't write opcode", ErrSink))
        ELSE IF WriteFails(w1) THEN MResult(w2, ErrSink)
        ELSE MResult(w2, Nil)

ACKPacket_Marshal(p, w) ==
    LET w1 == Write(w, U16BE(ACK))
        w2 == Write(w1, U16BE(p.BlockNumber))
    IN  IF WriteFails(w) THEN MResult(w1, NewIOError("can't write opcode", ErrSink))
        ELSE IF WriteFails(w1)
            THEN MResult(w2, NewIOError("can't write block number", ErrSink))
        ELSE MResult(w2, Nil)

ERRORPacket_Marshal(p, w) ==
    LET w1 == Write(w, U16BE(ERROR))
        w2 == Write(w1, U16BE(p.ErrorCode))
        w3 == Write(w2, p.ErrorMsg)
        w4 == Write(w3, <<0>>)
    IN  IF WriteFails(w) THEN MResult(w1, NewIOError("can't write opcode", ErrSink))
        ELSE IF WriteFails(w1)
            THEN MResult(w2, NewIOError("can't write error code", ErrSink))
        ELSE IF ~isNETASCII(p.ErrorMsg) THEN MResult(w2, ErrInputNotNETASCII)
        ELSE IF WriteFails(w2)
            THEN MResult(w3, NewIOError("can't write error message", ErrSink))
        ELSE IF WriteFails(w3)
            THEN MResult(w4, NewIOError("can't write error message NUL byte", ErrSink))
        ELSE MResult(w4, Nil)

(***************************************************************************)
(* The source (io.Reader), read like a bytes.Buffer: a Read returns as     *)
(* many of the remaining bytes as fit; once data is used up it returns     *)
(* endErr (io.EOF, or another error of the source).  pos is the number of  *)
(* bytes the callee has taken from the source.                             *)
(***************************************************************************)
NewSource(data, endErr) == [data |-> data, pos |-> 0, endErr |-> endErr]
Remaining(r) == Len(r.data) - r.pos
Unread(r) == SubSeq(r.data, r.pos + 1, Len(r.data))

\* binary.Read(r, binary.BigEndian, &v) for a 2-byte v: io.ReadFull of 2
\* bytes, then the big-endian value.  v is assigned only when err is nil.
BinaryReadU16(r) ==
    IF Remaining(r) >= 2
    THEN [r |-> [r EXCEPT !.pos = @ + 2],
          val |-> r.data[r.pos + 1] * 256 + r.data[r.pos + 2],
          err |-> Nil]
    ELSE [r |-> [r EXCEPT !.pos = Len(r.data)],
          val |-> 0,
          err |-> IF r.endErr = EOF /\ Remaining(r) > 0 THEN ErrUnexpectedEOF
                  ELSE r.endErr]

\* expectOpcode comparing the low byte of the opcode only
expectOpcode_LowByte(r, expected) ==
    LET rd == BinaryReadU16(r)
    IN  IF rd.err = Nil /\ rd.val % 256 # expected
        THEN [r |-> rd.r, err |-> ErrMismatchingOpcode]
        ELSE [r |-> rd.r, err |-> rd.err]

\* expectOpcode: the error of binary.Read is returned as it is
expectOpcode(r, expected) ==
    LET rd == BinaryReadU16(r)
    IN  IF rd.err = Nil /\ rd.val # expected
        THEN [r |-> rd.r, err |-> ErrMismatchingOpcode]
        ELSE [r |-> rd.r, err |-> rd.err]

\* bufio.NewReader(r): start is the offset in r.data of the first byte the
\* bufio.Reader has not handed out; data[start+1 .. r.pos] is buffered.
NewReader(r) == [r |-> r, start |-> r.pos]

\* How far a bufio.Reader has read the source when ReadString returns: it
\* fills its buffer (one Read of the free space) until the buffered bytes
\* hold a NUL or the source is used up; a full buffer without NUL is
\* handed over and refilled.
RECURSIVE FillUntilNUL(_, _, _)
FillUntilNUL(data, start, pos) ==
    IF \E i \in (start + 1)..pos : data[i] = 0 THEN pos
    ELSE IF pos = Len(data) THEN pos
    ELSE IF pos - start = BufSize THEN FillUntilNUL(data, pos, pos)
    ELSE FillUntilNUL(data, start, Min(Len(data), start + BufSize))

\* reader.ReadString('\x00'): the bytes up to and including the first NUL,
\* or everything left together with the error of the source.
ReadString(b) ==
    LET data == b.r.data
        pos2 == FillUntilNUL(data, b.start, b.r.pos)
        nuls == {i \in (b.start + 1)..pos2 : data[i] = 0}
        r2 == [b.r EXCEPT !.pos = pos2]
    IN  IF nuls # {}
        THEN LET idx == CHOOSE i \in nuls : \A j \in nuls : i <= j
             IN  [str |-> SubSeq(data, b.start + 1, idx),
                  b |-> [r |-> r2, start |-> idx],
                  err |-> Nil]
        ELSE [str |-> SubSeq(data, b.start + 1, Len(data)),
              b |-> [r |-> r2, start |-> Len(data)],
              err |-> b.r.endErr]

\* s[:len(s)-1]
DropLast(s) == SubSeq(s, 1, Len(s) - 1)

\* io.ReadAll(r): everything left; io.EOF is not reported as an error
ReadAll(r) ==
    [buf |-> Unread(r),
     r |-> [r EXCEPT !.pos = Len(r.data)],
     err |-> IF r.endErr = EOF THEN Nil ELSE r.endErr]

UResult(p, r, e) == [p |-> p, r |-> r, err |-> e]

(***************************************************************************)
(* Unmarshal methods.  p is the receiver before the call; the result holds *)
(* the receiver and the source after the call and the error returned.      *)
(***************************************************************************)
\* RRQPacket.Unmarshal storing the filename as soon as it is validated
RRQPacket_Unmarshal_AssignEarly(p, r) ==
    LET op == expectOpcode(r, RRQ)
        reader == NewReader(op.r)
        f == ReadString(reader)
        filename == DropLast(f.str)
        p1 == [p EXCEPT !.Filename = filename]
        m == ReadString(f.b)
        mode == DropLast(m.str)
    IN  IF op.err # Nil THEN UResult(p, op.r, op.err)
        ELSE IF f.err # Nil THEN UResult(p, f.b.r, NewIOError("can't read filename", f.err))
        ELSE IF ~isNETASCII(filename) THEN UResult(p, f.b.r, ErrInputNotNETASCII)
        ELSE IF m.err # Nil THEN UResult(p1, m.b.r, NewIOError("can't read mode", m.err))
        ELSE IF ~isNETASCII(mode) THEN UResult(p1, m.b.r, ErrInputNotNETASCII)
        ELSE UResult([p1 EXCEPT !.Mode = mode], m.b.r, Nil)

\* RRQPacket.Unmarshal taking a mode that ends with the input as complete
RRQPacket_Unmarshal_EOFTolerant(p, r) ==
    LET op == expectOpcode(r, RRQ)
        reader == NewReader(op.r)
        f == ReadString(reader)
        filename == DropLast(f.str)
        m == ReadString(f.b)
        mode == IF m.err = Nil THEN DropLast(m.str) ELSE m.str
    IN  IF op.err # Nil THEN UResult(p, op.r, op.err)
        ELSE IF f.err # Nil THEN UResult(p, f.b.r, NewIOError("can't read filename", f.err))
        ELSE IF ~isNETASCII(filename) THEN UResult(p, f.b.r, ErrInputNotNETASCII)
        ELSE IF m.err # Nil /\ m.err # EOF
            THEN UResult(p, m.b.r, NewIOError("can't read mode", m.err))
        ELSE IF ~isNETASCII(mode) THEN UResult(p, m.b.r, ErrInputNotNETASCII)
        ELSE UResult([p EXCEPT !.Filename = filename, !.Mode = mode], m.b.r, Nil)

RRQPacket_Unmarshal(p, r) ==
    LET op == expectOpcode(r, RRQ)
        reader == NewReader(op.r)
        f == ReadString(reader)
        filename == DropLast(f.str)
        m == ReadString(f.b)
        mode == DropLast(m.str)
    IN  IF op.err # Nil THEN UResult(p, op.r, op.err)
        ELSE IF f.err # Nil THEN UResult(p, f.b.r, NewIOError("can't read filename", f.err))
        ELSE IF ~isNETASCII(filename) THEN UResult(p, f.b.r, ErrInputNotNETASCII)
        ELSE IF m.err # Nil THEN UResult(p, m.b.r, NewIOError("can't read mode", m.err))
        ELSE IF ~isNETASCII(mode) THEN UResult(p, m.b.r, ErrInputNotNETASCII)
        ELSE UResult([p EXCEPT !.Filename = filename, !.Mode = mode], m.b.r, Nil)

\* WRQPacket.Unmarshal validating the filename a second time instead of the mode
WRQPacket_Unmarshal_ModeUnchecked(p, r) ==
    LET op == expectOpcode(r, WRQ)
        reader == NewReader(op.r)
        f == ReadString(reader)
        filename == DropLast(f.str)
        m == ReadString(f.b)
        mode == DropLast(m.str)
    IN  IF op.err # Nil THEN UResult(p, op.r, op.err)
        ELSE IF f.err # Nil THEN UResult(p, f.b.r, NewIOError("can't read filename", f.err))
        ELSE IF ~isNETASCII(filename) THEN UResult(p, f.b.r, ErrInputNotNETASCII)
        ELSE IF m.err # Nil THEN UResult(p, m.b.r, NewIOError("can't read mode", m.err))
        ELSE IF ~isNETASCII(filename) THEN UResult(p, m.b.r, ErrInputNotNETASCII)
        ELSE UResult([p EXCEPT !.Filename = filename, !.Mode = mode], m.b.r, Nil)

WRQPacket_Unmarshal(p, r) ==
    LET op == expectOpcode(r, WRQ)
        reader == NewReader(op.r)
        f == ReadString(reader)
        filename == DropLast(f.str)
        m == ReadString(f.b)
        mode == DropLast(m.str)
    IN  IF op.err # Nil THEN UResult(p, op.r, op.err)
        ELSE IF f.err # Nil THEN UResult(p, f.b.r, NewIOError("can't read filename", f.err))
        ELSE IF ~isNETASCII(filename) THEN UResult(p, f.b.r, ErrInputNotNETASCII)
        ELSE IF m.err # Nil THEN UResult(p, m.b.r, NewIOError("can't read mode", m.err))
        ELSE IF ~isNETASCII(mode) THEN UResult(p, m.b.r, ErrInputNotNETASCII)
        ELSE UResult([p EXCEPT !.Filename = filename, !.Mode = mode], m.b.r, Nil)

\* DATAPacket.Unmarshal enforcing the payload ceiling of Marshal
DATAPacket_Unmarshal_Ceiling(p, r) ==
    LET op == expectOpcode(r, DATA)
        bn == BinaryReadU16(op.r)
        blockNumber == bn.val
        all == ReadAll(bn.r)
    IN  IF op.err # Nil THEN UResult(p, op.r, op.err)
        ELSE IF bn.err # Nil
            THEN UResult(p, bn.r, NewIOError("can't read block number", bn.err))
        ELSE IF blockNumber = 0 THEN UResult(p, bn.r, ErrInvalidBlockNumber)
        ELSE IF all.err # Nil THEN UResult(p, all.r, NewIOError("can't read data", all.err))
        ELSE IF Len(all.buf) > MaxData THEN UResult(p, all.r, ErrTooMuchData)
        ELSE UResult([p EXCEPT !.Data = all.buf, !.BlockNumber = blockNumber], all.r, Nil)

DATAPacket_Unmarshal(p, r) ==
    LET op == expectOpcode(r, DATA)
        bn == BinaryReadU16(op.r)
        blockNumber == bn.val
        all == ReadAll(bn.r)
    IN  IF op.err # Nil THEN UResult(p, op.r, op.err)
        ELSE IF bn.err # Nil
            THEN UResult(p, bn.r, NewIOError("can't read block number", bn.err))
        ELSE IF blockNumber = 0 THEN UResult(p, bn.r, ErrInvalidBlockNumber)
        ELSE IF all.err # Nil THEN UResult(p, all.r, NewIOError("can't read data", all.err))
        ELSE UResult([p EXCEPT !.Data = all.buf, !.BlockNumber = blockNumber], all.r, Nil)

ACKPacket_Unmarshal(p, r) ==
    LET op == expectOpcode(r, ACK)
        bn == BinaryReadU16(op.r)
    IN  IF op.err # Nil THEN UResult(p, op.r, op.err)
        ELSE IF bn.err # Nil
            THEN UResult(p, bn.r, NewIOError("can't read block number", bn.err))
        ELSE UResult([p EXCEPT !.BlockNumber = bn.val], bn.r, Nil)

\* errorMsg is the result of ReadString as it is, terminator included
ERRORPacket_Unmarshal(p, r) ==
    LET op == expectOpcode(r, ERROR)
        ec == BinaryReadU16(op.r)
        errorCode == ec.val
        reader == NewReader(ec.r)
        em == ReadString(reader)
        errorMsg == em.str
    IN  IF op.err # Nil THEN UResult(p, op.r, op.err)
        ELSE IF ec.err # Nil
            THEN UResult(p, ec.r, NewIOError("can't read error code", ec.err))
        ELSE IF em.err # Nil
            THEN UResult(p, em.b.r, NewIOError("can't read error message", em.err))
        ELSE IF ~isNETASCII(errorMsg) THEN UResult(p, em.b.r, ErrInputNotNETASCII)
        ELSE UResult([p EXCEPT !.ErrorCode = errorCode, !.ErrorMsg = errorMsg], em.b.r, Nil)

(***************************************************************************)
(* Inputs.                                                                 *)
(***************************************************************************)
Strings == SeqsUpTo(Bytes, MaxLen)
\* payloads: the short ones, and those around the 512-byte ceiling
Payloads == Strings \cup {LongData(n) : n \in {MaxData - 1, MaxData, MaxData + 1}}

RRQPackets == [kind : {"RRQ"}, Filename : Strings, Mode : Strings]
WRQPackets == [kind : {"WRQ"}, Filename : Strings, Mode : Strings]
DATAPackets == [kind : {"DATA"}, BlockNumber : U16Vals, Data : Payloads]
ACKPackets == [kind : {"ACK"}, BlockNumber : U16Vals]
ERRORPackets == [kind : {"ERROR"}, ErrorCode : U16Vals, ErrorMsg : Strings]
Packets == RRQPackets \cup WRQPackets \cup DATAPackets \cup ACKPackets \cup ERRORPackets

\* the zero value of each packet type
Zero(kind) ==
    CASE kind = "RRQ" -> [kind |-> "RRQ", Filename |-> <<>>, Mode |-> <<>>]
      [] kind = "WRQ" -> [kind |-> "WRQ", Filename |-> <<>>, Mode |-> <<>>]
      [] kind = "DATA" -> [kind |-> "DATA", BlockNumber |-> 0, Data |-> <<>>]
      [] kind = "ACK" -> [kind |-> "ACK", BlockNumber |-> 0]
      [] kind = "ERROR" -> [kind |-> "ERROR", ErrorCode |-> 0, ErrorMsg |-> <<>>]

\* a packet of each type that differs from the zero value in every field
Used(kind) ==
    CASE kind = "RRQ" -> [kind |-> "RRQ", Filename |-> <<1, 1>>, Mode |-> <<127>>]
      [] kind = "WRQ" -> [kind |-> "WRQ", Filename |-> <<1, 1>>, Mode |-> <<127>>]
      [] kind = "DATA" -> [kind |-> "DATA", BlockNumber |-> 9, Data |-> <<128, 0>>]
      [] kind = "ACK" -> [kind |-> "ACK", BlockNumber |-> 9]
      [] kind = "ERROR" -> [kind |-> "ERROR", ErrorCode |-> 9, ErrorMsg |-> <<1, 1>>]

Kinds == {"RRQ", "WRQ", "DATA", "ACK", "ERROR"}
\* receivers an Unmarshal is called on
Receivers == {Zero(k) : k \in Kinds} \cup {Used(k) : k \in Kinds}

\* the first two bytes of a source: every opcode, its neighbours 0 and 6, and
\* a word that agrees with DATA in the low byte only
OpcodeWords == (0..6) \cup {256 + DATA}
Bodies == SeqsUpTo(Bytes, MaxBody)
SourceData ==
    {<<>>, <<0>>}
    \cup {U16BE(o) \o b : o \in OpcodeWords, b \in Bodies}
    \cup {U16BE(DATA) \o U16BE(bn) \o LongData(n) : bn \in {0, 1}, n \in {MaxData, MaxData + 1}}
Sources == {NewSource(d, e) : d \in SourceData, e \in {EOF, ErrClosed}}

NoPacket == [kind |-> "none"]

(***************************************************************************)
(* State.  pc is "marshal" or "unmarshal" before the call the state was    *)
(* set up for and "marshalled" / "unmarshalled" after it.  p is the packet *)
(* (the receiver of the call), before the receiver as it was before an     *)
(* Unmarshal, w the sink, r the source, err the error returned.  sent is   *)
(* the packet whose Marshal output the source holds, if any.  arg and ret   *)
(* are the argument and the result of a call of isNETASCII on its own.     *)
(***************************************************************************)
VARIABLES pc, p, before, w, r, err, sent, arg, ret

vars == <<pc, p, before, w, r, err, sent, arg, ret>>

Init ==
    /\ err = Nil
    /\ sent = NoPacket
    /\ arg = <<>>
    /\ ret = FALSE
    /\ \/ /\ pc = "marshal"
          /\ p \in Packets
          /\ before = p
          /\ \E f \in 0..MaxFailAt : w = NewSink(f)
          /\ r = NewSource(<<>>, EOF)
       \/ /\ pc = "unmarshal"
          /\ p \in Receivers
          /\ before = p
          /\ w = NewSink(0)
          /\ r \in Sources

\* A Marshal call on the packet and sink of the state.
DoMarshal(res) ==
    /\ w' = res.w
    /\ err' = res.err
    /\ pc' = "marshalled"
    /\ UNCHANGED <<p, before, r, sent, arg, ret>>

\* An Unmarshal call, on the receiver and source of the state or, after a
\* Marshal into a sink that took every write, on a zero-valued receiver and
\* a source holding exactly the bytes of the sink.
DoUnmarshal(res, q, s) ==
    /\ p' = res.p
    /\ before' = q
    /\ r' = res.r
    /\ err' = res.err
    /\ sent' = s
    /\ pc' = "unmarshalled"
    /\ UNCHANGED <<w, arg, ret>>

Loopback == pc = "marshalled" /\ w.failAt = 0
SinkSource == NewSource(w.buf, EOF)

RRQMarshal == pc = "marshal" /\ p.kind = "RRQ" /\ DoMarshal(RRQPacket_Marshal(p, w))
WRQMarshal == pc = "marshal" /\ p.kind = "WRQ" /\ DoMarshal(WRQPacket_Marshal(p, w))
DATAMarshal == pc = "marshal" /\ p.kind = "DATA" /\ DoMarshal(DATAPacket_Marshal(p, w))
ACKMarshal == pc = "marshal" /\ p.kind = "ACK" /\ DoMarshal(ACKPacket_Marshal(p, w))
ERRORMarshal == pc = "marshal" /\ p.kind = "ERROR" /\ DoMarshal(ERRORPacket_Marshal(p, w))

RRQUnmarshal ==
    \/ /\ pc = "unmarshal" /\ p.kind = "RRQ"
       /\ DoUnmarshal(RRQPacket_Unmarshal(p, r), p, NoPacket)
    \/ /\ Loopback
       /\ DoUnmarshal(RRQPacket_Unmarshal(Zero("RRQ"), SinkSource), Zero("RRQ"), p)

WRQUnmarshal ==
    \/ /\ pc = "unmarshal" /\ p.kind = "WRQ"
       /\ DoUnmarshal(WRQPacket_Unmarshal(p, r), p, NoPacket)
    \/ /\ Loopback
       /\ DoUnmarshal(WRQPacket_Unmarshal(Zero("WRQ"), SinkSource), Zero("WRQ"), p)

DATAUnmarshal ==
    \/ /\ pc = "unmarshal" /\ p.kind = "DATA"
       /\ DoUnmarshal(DATAPacket_Unmarshal(p, r), p, NoPacket)
    \/ /\ Loopback
       /\ DoUnmarshal(DATAPacket_Unmarshal(Zero("DATA"), SinkSource), Zero("DATA"), p)

ACKUnmarshal ==
    \/ /\ pc = "unmarshal" /\ p.kind = "ACK"
       /\ DoUnmarshal(ACKPacket_Unmarshal(p, r), p, NoPacket)
    \/ /\ Loopback
       /\ DoUnmarshal(ACKPacket_Unmarshal(Zero("ACK"), SinkSource), Zero("ACK"), p)

ERRORUnmarshal ==
    \/ /\ pc = "unmarshal" /\ p.kind = "ERROR"
       /\ DoUnmarshal(ERRORPacket_Unmarshal(p, r), p, NoPacket)
    \/ /\ Loopback
       /\ DoUnmarshal(ERRORPacket_Unmarshal(Zero("ERROR"), SinkSource), Zero("ERROR"), p)

Next ==
    \/ RRQMarshal
    \/ WRQMarshal
    \/ DATAMarshal
    \/ ACKMarshal
    \/ ERRORMarshal
    \/ RRQUnmarshal
    \/ WRQUnmarshal
    \/ DATAUnmarshal
    \/ ACKUnmarshal
    \/ ERRORUnmarshal

Spec == Init /\ [][Next]_vars

(***************************************************************************)
(* isNETASCII on its own: the argument is drawn from the strings over      *)
(* NetasciiBytes of at most MaxStr bytes, the call stores its result.      *)
(***************************************************************************)
\* byte values of the arguments: NUL, both ends of 1..127, one byte inside,
\* and both ends of 128..255
NetasciiBytes == {0, 1, 65, 127, 128, 255}

InitNETASCII ==
    /\ pc = "isNETASCII"
    /\ arg \in SeqsUpTo(NetasciiBytes, MaxStr)
    /\ ret = FALSE
    /\ p = NoPacket
    /\ before = NoPacket
    /\ w = NewSink(0)
    /\ r = NewSource(<<>>, EOF)
    /\ err = Nil
    /\ sent = NoPacket

IsNETASCIICall ==
    /\ pc = "isNETASCII"
    /\ ret' = isNETASCII(arg)
    /\ pc' = "returned"
    /\ UNCHANGED <<p, before, w, r, err, sent, arg>>

NextNETASCII == IsNETASCIICall

SpecNETASCII == InitNETASCII /\ [][NextNETASCII]_vars

(***************************************************************************)
(* Vocabulary of the properties, stated on bytes without the operators of  *)
(* the codec.                                                              *)
(***************************************************************************)
\* every byte of s is in 1..127
Ascii7(s) == \A i \in 1..Len(s) : s[i] >= 1 /\ s[i] <= 127
\* some byte of s is above 127
HasHighByte(s) == \E i \in 1..Len(s) : s[i] > 127
\* the 2 big-endian bytes of a 16-bit value
Word(v) == <<v \div 256, v % 256>>
\* the 16-bit value at offsets i, i+1 of d
WordAt(d, i) == d[i] * 256 + d[i + 1]
OpcodeOf(kind) ==
    CASE kind = "RRQ" -> 1 [] kind = "WRQ" -> 2 [] kind = "DATA" -> 3
      [] kind = "ACK" -> 4 [] kind = "ERROR" -> 5
\* positions of the NUL bytes of d after its 2-byte opcode
NULs(d) == {i \in 3..Len(d) : d[i] = 0}
\* the position of the first NUL of d after position from
NextNUL(d, from) == CHOOSE i \in NULs(d) : i > from /\ \A j \in NULs(d) : j > from => i <= j
\* the packet satisfies the preconditions of its variant
Encodable(q) ==
    CASE q.kind \in {"RRQ", "WRQ"} -> Ascii7(q.Filename) /\ Ascii7(q.Mode)
      [] q.kind = "DATA" -> q.BlockNumber # 0 /\ Len(q.Data) <= 512
      [] q.kind = "ACK" -> TRUE
      [] q.kind = "ERROR" -> Ascii7(q.ErrorMsg)
\* a Marshal has returned, on a sink that accepts every write
Marshalled(kinds) == pc = "marshalled" /\ p.kind \in kinds /\ w.failAt = 0
\* an Unmarshal has returned on a source that starts with the receiver's opcode
Unmarshalled(kinds) ==
    /\ pc = "unmarshalled"
    /\ p.kind \in kinds
    /\ Len(r.data) >= 2
    /\ WordAt(r.data, 1) = OpcodeOf(p.kind)

(***************************************************************************)
(* C1: round trip.  For each of the five variants, Marshal of a packet     *)
(* that satisfies its preconditions into an empty sink followed by the     *)
(* same variant's Unmarshal on exactly those bytes succeeds and yields the *)
(* fields of the packet.                                                   *)
(***************************************************************************)
C1_RoundTrip ==
    (pc = "unmarshalled" /\ sent # NoPacket /\ sent.kind = p.kind /\ Encodable(sent))
        => (err = Nil /\ p = sent)

(***************************************************************************)
(* C2: ERRORPacket.Unmarshal on 00 05, a 2-byte error code, a message of   *)
(* bytes in 1..127 and one terminating NUL returns nil, ErrorCode is the   *)
(* code read and ErrorMsg the message without its terminator.              *)
(***************************************************************************)
C2_ErrorUnmarshalAccepts ==
    (/\ Unmarshalled({"ERROR"})
     /\ Len(r.data) >= 5
     /\ r.data[Len(r.data)] = 0
     /\ Ascii7(SubSeq(r.data, 5, Len(r.data) - 1)))
        => /\ err = Nil
           /\ p.ErrorCode = WordAt(r.data, 3)
           /\ p.ErrorMsg = SubSeq(r.data, 5, Len(r.data) - 1)

(***************************************************************************)
(* C3, as stated: DATAPacket.Marshal with BlockNumber = 0 returns          *)
(* ErrInvalidBlockNumber and the sink has received no bytes at all.        *)
(***************************************************************************)
C3_NoBytesAtAll ==
    (Marshalled({"DATA"}) /\ p.BlockNumber = 0)
        => (err = ErrInvalidBlockNumber /\ w.buf = <<>>)

(***************************************************************************)
(* C3, amended: DATAPacket.Marshal with BlockNumber = 0 returns            *)
(* ErrInvalidBlockNumber and the sink has received exactly the opcode      *)
(* bytes 00 03, in one write: no block-number byte and no payload byte.    *)
(***************************************************************************)
C3_OnlyOpcodeWritten ==
    (Marshalled({"DATA"}) /\ p.BlockNumber = 0)
        => (err = ErrInvalidBlockNumber /\ w.buf = <<0, 3>> /\ Len(w.log) = 1)

C3_Witness ==
    Marshalled({"DATA"}) /\ p.BlockNumber = 0 /\ Len(p.Data) > 0 /\ w.buf # <<>>

(***************************************************************************)
(* C4: for every filename and mode with all bytes in 1..127 (either may be *)
(* empty), RRQPacket.Marshal and WRQPacket.Marshal return nil and the sink *)
(* receives exactly opcode (00 01 / 00 02), filename, 00, mode, 00.        *)
(***************************************************************************)
C4_RequestLayout ==
    (Marshalled({"RRQ", "WRQ"}) /\ Ascii7(p.Filename) /\ Ascii7(p.Mode))
        => /\ err = Nil
           /\ w.buf = <<0, IF p.kind = "RRQ" THEN 1 ELSE 2>>
                        \o p.Filename \o <<0>> \o p.Mode \o <<0>>

C4_Witness ==
    /\ Marshalled({"WRQ"})
    /\ p.Filename = <<>>
    /\ Len(p.Mode) = MaxLen
    /\ Ascii7(p.Mode)
    /\ err = Nil

(***************************************************************************)
(* C5: when a string field is not NETASCII (a 0 byte or a byte above 127   *)
(* in an RRQ/WRQ filename or mode, or in an ERROR message), Marshal        *)
(* returns ErrInputNotNETASCII and no byte of any string field and no NUL  *)
(* terminator reaches the sink: the sink holds the opcode (and, for ERROR, *)
(* the error code) only, also when the other field of a request is valid.  *)
(***************************************************************************)
C5_NothingAfterBadString ==
    /\ (Marshalled({"RRQ", "WRQ"}) /\ ~(Ascii7(p.Filename) /\ Ascii7(p.Mode)))
        => /\ err = ErrInputNotNETASCII
           /\ w.buf = Word(OpcodeOf(p.kind))
           /\ Len(w.log) = 1
    /\ (Marshalled({"ERROR"}) /\ ~Ascii7(p.ErrorMsg))
        => /\ err = ErrInputNotNETASCII
           /\ w.buf = <<0, 5>> \o Word(p.ErrorCode)
           /\ Len(w.log) = 2

C5_Witness ==
    /\ Marshalled({"RRQ"})
    /\ Ascii7(p.Filename)
    /\ Len(p.Filename) > 0
    /\ ~Ascii7(p.Mode)
    /\ err = ErrInputNotNETASCII

(***************************************************************************)
(* C6: DATAPacket.Marshal decides in this order: BlockNumber = 0 gives     *)
(* ErrInvalidBlockNumber (also with more than 512 payload bytes); else     *)
(* more than 512 payload bytes give ErrTooMuchData; else (0..512 bytes) it *)
(* returns nil and the sink holds 00 03, the block number in 2 big-endian  *)
(* bytes and the payload verbatim.                                         *)
(***************************************************************************)
C6_DataMarshalOrder ==
    Marshalled({"DATA"})
        => IF p.BlockNumber = 0 THEN err = ErrInvalidBlockNumber
           ELSE IF Len(p.Data) > 512 THEN err = ErrTooMuchData
           ELSE err = Nil /\ w.buf = <<0, 3>> \o Word(p.BlockNumber) \o p.Data

C6_Witness ==
    Marshalled({"DATA"}) /\ p.BlockNumber = 0 /\ Len(p.Data) > 512

\* the accepted ends of the payload range are reached too
C6_WitnessFull ==
    Marshalled({"DATA"}) /\ p.BlockNumber # 0 /\ Len(p.Data) = 512 /\ err = Nil

(***************************************************************************)
(* C7: for each Unmarshal, when the source holds at least 2 bytes and the  *)
(* first 2 bytes, read big-endian, differ from the receiver's opcode, the  *)
(* call returns ErrMismatchingOpcode and has consumed exactly 2 bytes.     *)
(***************************************************************************)
C7_MismatchConsumesOpcode ==
    (/\ pc = "unmarshalled"
     /\ Len(r.data) >= 2
     /\ WordAt(r.data, 1) # OpcodeOf(p.kind))
        => (err = ErrMismatchingOpcode /\ r.pos = 2)

C7_Witness ==
    /\ pc = "unmarshalled"
    /\ p.kind = "DATA"
    /\ Len(r.data) > 2
    /\ r.data[1] = 1
    /\ r.data[2] = 3
    /\ err = ErrMismatchingOpcode

(***************************************************************************)
(* C8, as stated: RRQPacket.Unmarshal and WRQPacket.Unmarshal on a stream  *)
(* with the matching opcode that ends before the terminating NUL of the    *)
(* filename or of the mode always return an IOError, whatever the bytes of *)
(* the fields are.                                                         *)
(***************************************************************************)
C8_TruncatedAlwaysIOError ==
    (Unmarshalled({"RRQ", "WRQ"}) /\ Cardinality(NULs(r.data)) < 2)
        => err.type = "IOError"

(***************************************************************************)
(* C8, amended: on such a stream they never return nil; they return an     *)
(* IOError wrapping the end-of-input error of the source when the stream   *)
(* ends before the NUL of the filename, or when the filename is terminated *)
(* with all bytes in 1..127 and the stream ends before the NUL of the      *)
(* mode; when the filename is terminated and holds a byte above 127 they   *)
(* return ErrInputNotNETASCII.                                             *)
(***************************************************************************)
C8_TruncatedNeverSucceeds ==
    (Unmarshalled({"RRQ", "WRQ"}) /\ Cardinality(NULs(r.data)) < 2)
        => /\ err # Nil
           /\ IF /\ NULs(r.data) # {}
                 /\ HasHighByte(SubSeq(r.data, 3, NextNUL(r.data, 2) - 1))
              THEN err = ErrInputNotNETASCII
              ELSE /\ err.type = "IOError"
                   /\ err.Err = r.endErr
                   /\ err.Msg = IF NULs(r.data) = {} THEN "can't read filename"
                                ELSE "can't read mode"

C8_Witness ==
    /\ Unmarshalled({"RRQ"})
    /\ Cardinality(NULs(r.data)) = 1
    /\ Len(r.data) > NextNUL(r.data, 2)
    /\ err.type = "IOError"

\* the case the amendment is about is reached
C8_WitnessBadFilename ==
    /\ Unmarshalled({"WRQ"})
    /\ Cardinality(NULs(r.data)) = 1
    /\ err = ErrInputNotNETASCII

(***************************************************************************)
(* C9: RRQPacket.Unmarshal and WRQPacket.Unmarshal on a stream with the    *)
(* matching opcode and two NUL-terminated fields return                    *)
(* ErrInputNotNETASCII when the filename or the mode holds a byte above    *)
(* 127, and otherwise (every byte of both in 1..127, empty fields          *)
(* included) return nil with Filename and Mode the bytes before each       *)
(* terminator.                                                             *)
(***************************************************************************)
C9_RequestUnmarshal ==
    (Unmarshalled({"RRQ", "WRQ"}) /\ Cardinality(NULs(r.data)) >= 2)
        => LET n1 == NextNUL(r.data, 2)
               n2 == NextNUL(r.data, n1)
               filename == SubSeq(r.data, 3, n1 - 1)
               mode == SubSeq(r.data, n1 + 1, n2 - 1)
           IN  /\ (HasHighByte(filename) \/ HasHighByte(mode)) => err = ErrInputNotNETASCII
               /\ (err = Nil) <=> (Ascii7(filename) /\ Ascii7(mode))
               /\ (err = Nil) => (p.Filename = filename /\ p.Mode = mode)

C9_Witness ==
    /\ Unmarshalled({"WRQ"})
    /\ sent = NoPacket
    /\ Cardinality(NULs(r.data)) >= 2
    /\ err = Nil
    /\ p.Filename = <<127>>
    /\ p.Mode = <<>>
    /\ before # p

\* the rejecting case is reached with a valid filename and a bad mode
C9_WitnessBadMode ==
    /\ Unmarshalled({"RRQ"})
    /\ Cardinality(NULs(r.data)) >= 2
    /\ Ascii7(SubSeq(r.data, 3, NextNUL(r.data, 2) - 1))
    /\ err = ErrInputNotNETASCII

(***************************************************************************)
(* C10: DATAPacket.Unmarshal on a stream that starts with 00 03 and a      *)
(* 2-byte block number returns ErrInvalidBlockNumber when the block number *)
(* is 0; otherwise it succeeds with BlockNumber the big-endian value and   *)
(* Data all the remaining bytes verbatim, for every remaining length,      *)
(* 0 and lengths above 512 included.  The stream is one that ends with     *)
(* io.EOF.                                                                 *)
(***************************************************************************)
C10_DataUnmarshal ==
    (Unmarshalled({"DATA"}) /\ Len(r.data) >= 4 /\ r.endErr = EOF)
        => IF WordAt(r.data, 3) = 0 THEN err = ErrInvalidBlockNumber
           ELSE /\ err = Nil
                /\ p.BlockNumber = WordAt(r.data, 3)
                /\ p.Data = SubSeq(r.data, 5, Len(r.data))

C10_Witness ==
    /\ Unmarshalled({"DATA"})
    /\ sent = NoPacket
    /\ r.endErr = EOF
    /\ Len(r.data) > 4 + 512
    /\ err = Nil
    /\ Len(p.Data) > 512

\* the empty remainder is reached too
C10_WitnessEmpty ==
    Unmarshalled({"DATA"}) /\ Len(r.data) = 4 /\ err = Nil /\ p.Data = <<>> /\ before.Data # <<>>

(***************************************************************************)
(* C11: isNETASCII(s) returns true if and only if every byte of s is in    *)
(* 1..127; true for the empty string, false for any string with a 0 byte   *)
(* or a byte of 128 or more at any position.                               *)
(***************************************************************************)
C11_IsNETASCII ==
    pc = "returned"
        => /\ ret <=> (\A i \in 1..Len(arg) : arg[i] \in 1..127)
           /\ (arg = <<>>) => ret
           /\ (\E i \in 1..Len(arg) : arg[i] = 0 \/ arg[i] >= 128) => ~ret

C11_Witness ==
    /\ pc = "returned"
    /\ Len(arg) = MaxStr
    /\ arg[Len(arg)] = 0
    /\ \A i \in 1..(Len(arg) - 1) : arg[i] \in 1..127
    /\ ~ret

\* the accepting case is reached with both ends of the range
C11_WitnessAccept ==
    pc = "returned" /\ ret /\ (\E i \in 1..Len(arg) : arg[i] = 127) /\ (\E i \in 1..Len(arg) : arg[i] = 1)

(***************************************************************************)
(* Vocabulary of C12: the read step of an Unmarshal of the given kind at   *)
(* which a source with bytes d, ending with error e, fails or runs out;    *)
(* "none" when every read the call makes is served.                        *)
(***************************************************************************)
FailedStep(kind, d, e) ==
    IF Len(d) < 2 THEN "opcode"
    ELSE IF WordAt(d, 1) # OpcodeOf(kind) THEN "none"
    ELSE CASE kind \in {"RRQ", "WRQ"} ->
                IF NULs(d) = {} THEN "filename"
                ELSE IF ~Ascii7(SubSeq(d, 3, NextNUL(d, 2) - 1)) THEN "none"
                ELSE IF Cardinality(NULs(d)) < 2 THEN "mode"
                ELSE "none"
           [] kind = "DATA" ->
                IF Len(d) < 4 THEN "block number"
                ELSE IF WordAt(d, 3) = 0 THEN "none"
                ELSE IF e # EOF THEN "data"
                ELSE "none"
           [] kind = "ACK" -> IF Len(d) < 4 THEN "block number" ELSE "none"
           [] kind = "ERROR" ->
                IF Len(d) < 4 THEN "error code"
                ELSE IF \A i \in 5..Len(d) : d[i] # 0 THEN "error message"
                ELSE "none"

\* the Msg of the IOError that names the step
StepMsg(step) ==
    CASE step = "filename" -> "can't read filename"
      [] step = "mode" -> "can't read mode"
      [] step = "block number" -> "can't read block number"
      [] step = "data" -> "can't read data"
      [] step = "error code" -> "can't read error code"
      [] step = "error message" -> "can't read error message"

\* the error the failed read reports: the error of the source, or
\* io.ErrUnexpectedEOF for a 2-byte read that io.EOF cuts after 1 byte
ReadErrors(e) == IF e = EOF THEN {EOF, ErrUnexpectedEOF} ELSE {e}

(***************************************************************************)
(* C12: during any Unmarshal, whenever the source fails or is exhausted at *)
(* a read step (inside the opcode, inside a block number or error code, or *)
(* before a string terminator), the call returns an IOError whose Err is   *)
(* the error of the source and whose Msg names the field being read; never *)
(* the bare error, never nil.                                              *)
(***************************************************************************)
C12_ReadFailureIsIOError ==
    (pc = "unmarshalled" /\ FailedStep(p.kind, r.data, r.endErr) # "none")
        => /\ err.type = "IOError"
           /\ err.Err \in ReadErrors(r.endErr)
           /\ FailedStep(p.kind, r.data, r.endErr) # "opcode"
                => err.Msg = StepMsg(FailedStep(p.kind, r.data, r.endErr))

(***************************************************************************)
(* Vocabulary of C13: the writes a Marshal of q makes, in order, and the   *)
(* Msg of the IOError for each of them.                                    *)
(***************************************************************************)
Layout(q) ==
    CASE q.kind = "RRQ" -> <<<<0, 1>>, q.Filename, <<0>>, q.Mode, <<0>>>>
      [] q.kind = "WRQ" -> <<<<0, 2>>, q.Filename, <<0>>, q.Mode, <<0>>>>
      [] q.kind = "DATA" -> <<<<0, 3>>, Word(q.BlockNumber), q.Data>>
      [] q.kind = "ACK" -> <<<<0, 4>>, Word(q.BlockNumber)>>
      [] q.kind = "ERROR" -> <<<<0, 5>>, Word(q.ErrorCode), q.ErrorMsg, <<0>>>>

WriteMsgs(kind) ==
    CASE kind = "RRQ" -> <<"can't write opcode", "can't write filename",
                           "can't write filename NUL byte", "can't write mode",
                           "can't write mode NUL terminator">>
      [] kind = "WRQ" -> <<"can't write opcode", "can't write filename",
                           "can't write filename NUL terminator", "can't write mode",
                           "can't write mode NUL terminator">>
      [] kind = "DATA" -> <<"can't write opcode", "can't write block number",
                            "can't write data">>
      [] kind = "ACK" -> <<"can't write opcode", "can't write block number">>
      [] kind = "ERROR" -> <<"can't write opcode", "can't write error code",
                             "can't write error message",
                             "can't write error message NUL byte">>

(***************************************************************************)
(* C13: during a Marshal of a packet that satisfies its preconditions, if  *)
(* the sink rejects the k-th write of the call, Marshal returns an IOError *)
(* whose Err is the error of the sink and whose Msg names the field of     *)
(* that write, and the sink has been offered exactly the first k writes of *)
(* the layout of the packet: no later write is attempted.                  *)
(***************************************************************************)
C13_WriteFailureStops ==
    (/\ pc = "marshalled"
     /\ Encodable(p)
     /\ w.failAt \in 1..Len(Layout(p)))
        => /\ err.type = "IOError"
           /\ err.Err = ErrSink
           /\ err.Msg = WriteMsgs(p.kind)[w.failAt]
           /\ w.log = SubSeq(Layout(p), 1, w.failAt)

C13_Witness ==
    /\ pc = "marshalled"
    /\ p.kind = "RRQ"
    /\ Encodable(p)
    /\ Len(p.Mode) > 0
    /\ w.failAt = 4
    /\ Len(w.log) = 4
    /\ err.type = "IOError"

(***************************************************************************)
(* C14: no partial success on decode.  For each Unmarshal, whenever the    *)
(* call returns a non-nil error (opcode mismatch, I/O error, invalid block *)
(* number or NETASCII violation), every field of the receiver has the      *)
(* value it had before the call.                                           *)
(***************************************************************************)
C14_FailedUnmarshalKeepsReceiver ==
    (pc = "unmarshalled" /\ err # Nil) => p = before

C14_Witness ==
    /\ pc = "unmarshalled"
    /\ p.kind = "RRQ"
    /\ before = Used("RRQ")
    /\ Len(r.data) >= 5
    /\ r.data[3] = 127
    /\ r.data[4] = 0
    /\ err.type = "IOError"
    /\ err.Msg = "can't read mode"

\* every kind of error is reached on a receiver with fields in use
C14_WitnessKinds ==
    /\ pc = "unmarshalled"
    /\ p.kind = "DATA"
    /\ before = Used("DATA")
    /\ err = ErrInvalidBlockNumber
    /\ Len(r.data) > 4

(***************************************************************************)
(* C15: a successful RRQPacket.Unmarshal or WRQPacket.Unmarshal consumes   *)
(* from the source exactly the bytes of that one packet: bytes the source  *)
(* holds after the NUL terminator of the mode are still unread after the   *)
(* call, so a following read starts immediately after the terminator.      *)
(***************************************************************************)
C15_ConsumesOnePacket ==
    (Unmarshalled({"RRQ", "WRQ"}) /\ err = Nil)
        => LET end == NextNUL(r.data, NextNUL(r.data, 2))
           IN  /\ r.pos = end
               /\ Unread(r) = SubSeq(r.data, end + 1, Len(r.data))

====
